---- MODULE Spec2Model ----
(***************************************************************************)
(* State-machine model of pyrelational's GenericActiveLearningStrategy     *)
(* (src/pyrelational/strategies/generic_al_strategy.py) driven by the      *)
(* concrete BadgeStrategy of src/examples/demo/model_badge.py.             *)
(*                                                                         *)
(* The data manager (GenericDataManager) and the model wrapper             *)
(* (GenericModel / LightningModel) are collaborators whose code is not     *)
(* part of the two source files; they are modelled from their contract.    *)
(***************************************************************************)
EXTENDS Integers, Sequences, FiniteSets, TLC

\* ------------------------------------------------------------------ bounds
UniverseSize == 3          \* number of train indices 0 .. UniverseSize-1
MaxIndicesLen == 2         \* longest index list handed to a direct call
MaxAnnotate == 2           \* largest num_annotate
MaxNumIterations == 1      \* largest num_iterations
MaxDirectUpdates == 1      \* direct active_learning_update calls stop at this iteration
MaxScore == 2              \* scores of unlabelled samples range over 1 .. MaxScore

\* --------------------------------------------------------- Python values
\* Optional[T]: None is the empty tuple, a present value x is <<x>>.
None == <<>>
Some(x) == <<x>>
\* float("nan") as stored under "hit_ratio".
NaN == <<>>

Universe == 0 .. (UniverseSize - 1)

Range(s) == {s[i] : i \in DOMAIN s}
Min(a, b) == IF a < b THEN a ELSE b
CeilDiv(a, b) == (a + b - 1) \div b

\* Index lists a caller can pass: any list over the universe, duplicates and
\* already-labelled indices included.
IndexLists == UNION {[1 .. k -> Universe] : k \in 0 .. MaxIndicesLen}
\* Lists of exactly k pairwise distinct members of S.
DistinctLists(S, k) == {s \in [1 .. k -> S] : Cardinality(Range(s)) = k}
\* A list holding the members of the set S (the data manager keeps lists).
ListOf(S) == CHOOSE s \in [1 .. Cardinality(S) -> S] : Range(s) = S

UpdateTags == {"Manual Update"}
OracleArgs == {None, Some("oracle")}
TestLoaderArgs == {None, Some("new_test")}
\* full_active_learning_run is driven with the data manager's own test loader.
RunTestLoaderArgs == {None}
QueryArgs == {None, Some(<<0>>), Some(<<1, 2>>)}
NumIterationsArgs == {None} \cup {Some(k) : k \in 0 .. MaxNumIterations}
\* The data manager's oracle top-informative set: absent or a non-empty set.
TopUnlabelledChoices == {None, Some({0, 1})}

\* Keys of the performances dict: an int iteration or the string "full".
\* (Variant: every record is filed under "full".)
IterKey_as_full(i) == <<"str", "full">>
IterKey(i) == <<"int", i>>
FullKey == <<"str", "full">>
IsIterKey(k) == k[1] = "int"

Put(f, k, v) == [x \in (DOMAIN f) \cup {k} |-> IF x = k THEN v ELSE f[x]]
EmptyDict == <<>>

\* A public call and what it returned (None while it runs or when it returns
\* nothing).
Returned(op, value) == [op |-> op, value |-> value]
\* An exception that left a call, in the place of the value it would return.
Raised(err) == <<"raised", err>>
IsRaised(v) == Len(v) = 2 /\ v[1] = "raised"

\* The strategy the engine is subclassed by: BadgeStrategy, whose step trains
\* on the labelled loader, or a strategy whose step does not train at all.
StrategyChoices == {"badge", "no_train"}

VARIABLES
    l_indices,        \* data_manager.l_indices
    u_indices,        \* data_manager.u_indices
    top_unlabelled,   \* data_manager.top_unlabelled
    oracle_seen,      \* indices the oracle interface was handed
    current_model,    \* model.current_model
    iteration,        \* self.iteration
    performances,     \* self.performances
    labelled_by,      \* self.labelled_by
    result,           \* the last public call made and the value it returned
    pc,               \* position inside full_active_learning_run
    num_annotate, num_iterations, oracle_interface, test_loader,
    return_query_history,          \* arguments of the running call
    iter_count, query_history, observations_for_labelling,  \* its locals
    u_at_call,        \* u_indices when the running call was entered
    strategy          \* which subclass implements active_learning_step

dm_vars == <<l_indices, u_indices, top_unlabelled, oracle_seen>>
engine_vars == <<iteration, performances, labelled_by>>
run_args == <<num_annotate, num_iterations, oracle_interface, test_loader,
              return_query_history>>
run_locals == <<iter_count, query_history, observations_for_labelling, u_at_call>>
vars == <<dm_vars, current_model, engine_vars, result, pc, run_args, run_locals,
          strategy>>

\* ------------------------------------------------ collaborators (contract)
\* GenericDataManager.update_train_labels: move indices from U to L.
update_train_labels(l, u, indices) ==
    [l |-> l \cup Range(indices), u |-> u \ Range(indices)]

\* Loader properties: a loader is represented by the indices it iterates.
l_loader == l_indices
u_loader == u_indices
train_loader == Universe
self_test_loader == "test"

\* GenericModel.train: fits and stores the current model.
train(loader) == Some([fit |-> loader])
\* GenericModel.test: metrics of the current model on a loader.
test(model, loader) == [model |-> model[1].fit, loader |-> loader]
\* oracle_interface.update_dataset(data_manager, indices)
update_dataset(seen, indices) == seen \cup Range(indices)

\* ------------------------------------------------------------ the engine
\* Variant: nothing is logged.
log_labelled_by_drop(lb, indices, tag) == lb
RECURSIVE log_labelled_by(_, _, _)
log_labelled_by(lb, indices, tag) ==
    IF indices = <<>> THEN lb
    ELSE log_labelled_by(Put(lb, Head(indices), tag), Tail(indices), tag)

\* Variants: the call is dropped; the indices are added to L and left in U.
update_annotations_dropped(l, u, indices) == [l |-> l, u |-> u]
update_annotations_keep_u(l, u, indices) == [l |-> l \cup Range(indices), u |-> u]
update_annotations(l, u, indices) == update_train_labels(l, u, indices)

\* The hit ratio of a query against the oracle top-informative set T.
\* Variants: a missing query taken as the empty query; the share of the
\* query that is in T.
hit_ratio_empty_query(query, T) ==
    IF query = None THEN <<0, Cardinality(T)>>
    ELSE <<Cardinality(Range(query[1]) \cap T), Cardinality(T)>>
hit_ratio_of_query(query, T) ==
    IF query = None THEN NaN
    ELSE <<Cardinality(Range(query[1]) \cap T), Len(query[1])>>
hit_ratio(query, T) ==
    IF query = None THEN NaN
    ELSE <<Cardinality(Range(query[1]) \cap T), Cardinality(T)>>

\* theoretical_performance: the record stored under "full".
\* Variant: the full-data fit is left in place.
theoretical_performance_keep_model(tl) ==
    LET fitted == train(train_loader)
        tested == test(fitted, IF tl = None THEN self_test_loader ELSE tl[1])
        res == IF top_unlabelled # None
               THEN [hit_ratio |-> NaN] @@ tested ELSE tested
    IN [performances |-> Put(performances, FullKey, res),
        current_model |-> fitted,
        result |-> res]
theoretical_performance(tl) ==
    LET fitted == train(train_loader)
        tested == test(fitted, IF tl = None THEN self_test_loader ELSE tl[1])
        res == IF top_unlabelled # None
               THEN [hit_ratio |-> NaN] @@ tested ELSE tested
    IN [performances |-> Put(performances, FullKey, res),
        current_model |-> None,
        result |-> res]

\* current_performance, entered with model state cm: the returned record and
\* the model state it leaves.
\* Variants: one that always retrains, one that leaves the tested model in
\* place.
current_performance_retrain(cm, tl, query) ==
    LET fitted == train(l_loader)
        tested == test(fitted, IF tl = None THEN self_test_loader ELSE tl[1])
        res == IF top_unlabelled # None
               THEN [hit_ratio |-> hit_ratio(query, top_unlabelled[1])] @@ tested
               ELSE tested
    IN [result |-> res, current_model |-> None]
current_performance_keep_model(cm, tl, query) ==
    LET fitted == IF cm = None THEN train(l_loader) ELSE cm
        tested == test(fitted, IF tl = None THEN self_test_loader ELSE tl[1])
        res == IF top_unlabelled # None
               THEN [hit_ratio |-> hit_ratio(query, top_unlabelled[1])] @@ tested
               ELSE tested
    IN [result |-> res, current_model |-> fitted]
current_performance(cm, tl, query) ==
    LET fitted == IF cm = None THEN train(l_loader) ELSE cm
        tested == test(fitted, IF tl = None THEN self_test_loader ELSE tl[1])
        res == IF top_unlabelled # None
               THEN [hit_ratio |-> hit_ratio(query, top_unlabelled[1])] @@ tested
               ELSE tested
    IN [result |-> res, current_model |-> None]

\* BadgeLightningModel.get_gradients on model state cm: raises on a null
\* model, else returns the gradients of that model over the loader.
UntrainedModelError ==
    [type |-> "ValueError",
     message |-> "Trying to query gradients of an untrained model, train model before calling get_gradients."]
\* Variant: no check of the model state, the null model fails where it is
\* first used.
get_gradients_unchecked(cm, loader) ==
    IF cm = None
    THEN Raised([type |-> "AttributeError",
                 message |-> "'NoneType' object has no attribute 'eval'"])
    ELSE Some([model |-> cm[1].fit, loader |-> loader])
get_gradients(cm, loader) ==
    IF cm = None THEN Raised(UntrainedModelError)
    ELSE Some([model |-> cm[1].fit, loader |-> loader])

\* The model state active_learning_step leaves when entered with cm:
\* BadgeStrategy trains on the labelled loader first.
\* Variant: a BadgeStrategy that queries gradients without training.
step_model_untrained(strat, cm) == cm
step_model(strat, cm) == IF strat = "badge" THEN train(l_loader) ELSE cm

\* u_grads and l_grads of BadgeStrategy.active_learning_step on model state m:
\* the pair of gradients, or the exception of the first query that raises.
step_gradients(strat, m) ==
    IF strat # "badge" THEN Some(<<>>)
    ELSE LET u_grads == get_gradients(m, u_loader)
             l_grads == get_gradients(m, l_loader)
         IN IF IsRaised(u_grads) THEN u_grads
            ELSE IF IsRaised(l_grads) THEN l_grads
            ELSE Some(<<u_grads[1], l_grads[1]>>)

\* relative_distance(u_grads, l_grads): one score per unlabelled sample.
Scores(k) == [1 .. k -> 1 .. MaxScore]
\* torch.argsort(scores, descending=True).tolist(): the positions ordered by
\* descending score, equal scores in any order.
\* Variant: ascending order.
argsort_ascending(scores) ==
    {p \in DistinctLists(DOMAIN scores, Len(scores)) :
        \A i, j \in DOMAIN p : i < j => scores[p[i]] <= scores[p[j]]}
argsort_descending(scores) ==
    {p \in DistinctLists(DOMAIN scores, Len(scores)) :
        \A i, j \in DOMAIN p : i < j => scores[p[i]] >= scores[p[j]]}
\* [self.u_indices[i] for i in ixs[:num_annotate]]
selection(ul, ixs, n) == [i \in 1 .. Min(n, Len(ixs)) |-> ul[ixs[i]]]

\* active_learning_step: the lists the ranking can return, over every score
\* the gradients can give; the slice keeps min(num_annotate, |U|) of them.
active_learning_step(n) ==
    LET ul == ListOf(u_indices)
    IN UNION {{selection(ul, ixs, n) : ixs \in argsort_descending(scores)} :
                 scores \in Scores(Len(ul))}

\* active_learning_update: the partition, counter, provenance and oracle
\* state it leaves.
\* Variants: one that starts the provenance log afresh, one that leaves the
\* iteration counter alone.
active_learning_update_relog(indices, oracle, update_tag) ==
    LET moved == update_annotations(l_indices, u_indices, indices)
    IN [l |-> moved.l, u |-> moved.u,
        oracle_seen |-> IF oracle = None THEN oracle_seen
                        ELSE update_dataset(oracle_seen, indices),
        iteration |-> iteration + 1,
        labelled_by |-> log_labelled_by(EmptyDict, indices, update_tag)]
active_learning_update_no_count(indices, oracle, update_tag) ==
    LET moved == update_annotations(l_indices, u_indices, indices)
    IN [l |-> moved.l, u |-> moved.u,
        oracle_seen |-> IF oracle = None THEN oracle_seen
                        ELSE update_dataset(oracle_seen, indices),
        iteration |-> iteration,
        labelled_by |-> log_labelled_by(labelled_by, indices, update_tag)]
active_learning_update(indices, oracle, update_tag) ==
    LET moved == update_annotations(l_indices, u_indices, indices)
    IN [l |-> moved.l, u |-> moved.u,
        oracle_seen |-> IF oracle = None THEN oracle_seen
                        ELSE update_dataset(oracle_seen, indices),
        iteration |-> iteration + 1,
        labelled_by |-> log_labelled_by(labelled_by, indices, update_tag)]

\* sorted(...) of a set of ints.
RECURSIVE sorted_ints(_)
sorted_ints(S) ==
    IF S = {} THEN <<>>
    ELSE LET least == CHOOSE x \in S : \A y \in S : x <= y
         IN <<least>> \o sorted_ints(S \ {least})
\* The metric names a record can hold, in the order sorted(...) gives strings.
MetricNames == <<"hit_ratio", "loader", "model">>
\* sorted(list(record.keys()))
sorted_names(S) == SelectSeq(MetricNames, LAMBDA c : c \in S)
\* The ints among the keys of the performances dict.
int_keys(perf) == {k[2] : k \in {x \in DOMAIN perf : IsIterKey(x)}}
Max(S) == CHOOSE x \in S : \A y \in S : y <= x

\* performance_history: the columns and the rows of the table, for the
\* performances dict perf and the iteration counter it.
\* Variant: without "full", the columns come from the highest recorded key.
performance_history_latest_recorded(perf, it) ==
    LET keys == sorted_ints(int_keys(perf))
        columns ==
            IF FullKey \in DOMAIN perf
            THEN <<"Iteration">> \o sorted_names(DOMAIN perf[FullKey])
            ELSE IF int_keys(perf) # {}
                 THEN <<"Iteration">>
                      \o sorted_names(DOMAIN perf[IterKey(Max(int_keys(perf)))])
                 ELSE <<"Iteration">>
        row(k) == <<k>> \o [c \in 1 .. (Len(columns) - 1) |->
                                perf[IterKey(k)][columns[c + 1]]]
    IN [columns |-> columns, rows |-> [i \in 1 .. Len(keys) |-> row(keys[i])]]
performance_history(perf, it) ==
    LET keys == sorted_ints(int_keys(perf))
        columns ==
            IF FullKey \in DOMAIN perf
            THEN <<"Iteration">> \o sorted_names(DOMAIN perf[FullKey])
            ELSE IF IterKey(it) \in DOMAIN perf
                 THEN <<"Iteration">> \o sorted_names(DOMAIN perf[IterKey(it)])
                 ELSE <<"Iteration">>
        row(k) == <<k>> \o [c \in 1 .. (Len(columns) - 1) |->
                                perf[IterKey(k)][columns[c + 1]]]
    IN [columns |-> columns, rows |-> [i \in 1 .. Len(keys) |-> row(keys[i])]]

\* ------------------------------------------------------------------ Init
\* __init__ on a data manager whose labelled indices are a non-empty prefix
\* of the train indices.
Constructed ==
    /\ l_indices \in {0 .. k : k \in 0 .. (UniverseSize - 1)}
    /\ u_indices = Universe \ l_indices
    /\ top_unlabelled \in TopUnlabelledChoices
    /\ oracle_seen = {}
    /\ current_model = None
    /\ iteration = 0
    /\ performances = EmptyDict
    /\ labelled_by = log_labelled_by(EmptyDict, ListOf(l_indices), "Initialisation")
    /\ result = Returned("__init__", None)
    /\ pc = "idle"
    /\ num_annotate = 1
    /\ num_iterations = None
    /\ oracle_interface = None
    /\ test_loader = None
    /\ return_query_history = FALSE
    /\ iter_count = 0
    /\ query_history = EmptyDict
    /\ observations_for_labelling = <<>>
    /\ u_at_call = {}

\* The engine of the demo: a BadgeStrategy.
Init == Constructed /\ strategy = "badge"
\* An engine of either strategy.
InitAnyStrategy == Constructed /\ strategy \in StrategyChoices

\* No call is in progress: a public method can be invoked.
Callable == pc \in {"idle", "returned", "raised"}

\* The frame of a finished full_active_learning_run is dropped.
ResetFrame ==
    /\ pc' = "idle"
    /\ num_annotate' = 1
    /\ num_iterations' = None
    /\ oracle_interface' = None
    /\ test_loader' = None
    /\ return_query_history' = FALSE
    /\ iter_count' = 0
    /\ query_history' = EmptyDict
    /\ observations_for_labelling' = <<>>
    /\ u_at_call' = {}

\* ------------------------------------------------- direct public calls
TheoreticalPerformance(tl) ==
    /\ Callable
    /\ LET r == theoretical_performance(tl)
       IN /\ performances' = r.performances
          /\ current_model' = r.current_model
          /\ result' = Returned("theoretical_performance", Some(r.result))
    /\ UNCHANGED <<strategy, dm_vars, iteration, labelled_by>>
    /\ ResetFrame

CurrentPerformance(tl, query) ==
    /\ Callable
    /\ LET r == current_performance(current_model, tl, query)
       IN /\ current_model' = r.current_model
          /\ result' = Returned("current_performance", Some(r.result))
    /\ UNCHANGED <<strategy, dm_vars, engine_vars>>
    /\ ResetFrame

ActiveLearningStep(n) ==
    /\ Callable
    /\ u_indices # {}
    /\ LET m == step_model(strategy, current_model)
           grads == step_gradients(strategy, m)
       IN /\ current_model' = m
          /\ IF IsRaised(grads)
             THEN result' = Returned("active_learning_step", grads)
             ELSE \E obs \in active_learning_step(n) :
                      result' = Returned("active_learning_step", Some(obs))
    /\ UNCHANGED <<strategy, dm_vars, engine_vars>>
    /\ ResetFrame

ActiveLearningUpdate(indices, oracle, update_tag) ==
    /\ Callable
    /\ iteration < MaxDirectUpdates
    /\ LET r == active_learning_update(indices, oracle, update_tag)
       IN /\ l_indices' = r.l
          /\ u_indices' = r.u
          /\ oracle_seen' = r.oracle_seen
          /\ iteration' = r.iteration
          /\ labelled_by' = r.labelled_by
    /\ result' = Returned("active_learning_update", None)
    /\ UNCHANGED <<strategy, top_unlabelled, current_model, performances>>
    /\ ResetFrame

UpdateAnnotations(indices) ==
    /\ Callable
    /\ LET moved == update_annotations(l_indices, u_indices, indices)
       IN /\ l_indices' = moved.l
          /\ u_indices' = moved.u
    /\ result' = Returned("update_annotations", None)
    /\ UNCHANGED <<strategy, top_unlabelled, oracle_seen, current_model, engine_vars>>
    /\ ResetFrame

\* model.get_gradients(loader), called on the model from outside a step with
\* the labelled or the unlabelled loader.
GetGradients(loader) ==
    /\ Callable
    /\ result' = Returned("get_gradients", get_gradients(current_model, loader))
    /\ UNCHANGED <<strategy, dm_vars, current_model, engine_vars>>
    /\ ResetFrame

PerformanceHistory ==
    /\ Callable
    /\ result' = Returned("performance_history",
                           Some(performance_history(performances, iteration)))
    /\ UNCHANGED <<strategy, dm_vars, current_model, engine_vars>>
    /\ ResetFrame

\* ------------------------------------------ full_active_learning_run
RunCall(n, ni, oracle, tl, rqh) ==
    /\ Callable
    /\ pc' = "while"
    /\ num_annotate' = n
    /\ num_iterations' = ni
    /\ oracle_interface' = oracle
    /\ test_loader' = tl
    /\ return_query_history' = rqh
    /\ iter_count' = 0
    /\ query_history' = EmptyDict
    /\ observations_for_labelling' = <<>>
    /\ u_at_call' = u_indices
    /\ result' = Returned("full_active_learning_run", None)
    /\ UNCHANGED <<strategy, dm_vars, current_model, engine_vars>>

\* while len(self.u_indices) > 0: iter_count += 1
RunWhile ==
    /\ pc = "while"
    /\ IF Cardinality(u_indices) > 0
       THEN /\ iter_count' = iter_count + 1
            /\ pc' = "step"
       ELSE /\ iter_count' = iter_count
            /\ pc' = "final_train"
    /\ UNCHANGED <<strategy, dm_vars, current_model, engine_vars, result, run_args,
                   query_history, observations_for_labelling, u_at_call>>

\* observations_for_labelling = self.active_learning_step(num_annotate)
RunStep ==
    /\ pc = "step"
    /\ LET m == step_model(strategy, current_model)
           grads == step_gradients(strategy, m)
       IN /\ current_model' = m
          /\ IF IsRaised(grads)
             THEN /\ result' = Returned("full_active_learning_run", grads)
                  /\ pc' = "raised"
                  /\ UNCHANGED <<observations_for_labelling, query_history>>
             ELSE /\ \E obs \in active_learning_step(num_annotate) :
                      /\ observations_for_labelling' = obs
                      /\ query_history' = IF return_query_history
                                          THEN Put(query_history, iter_count, obs)
                                          ELSE query_history
                  /\ pc' = "record"
                  /\ result' = result
    /\ UNCHANGED <<strategy, dm_vars, engine_vars, run_args, iter_count, u_at_call>>

\* self.performances[self.iteration] = self.current_performance(...)
RunRecord ==
    /\ pc = "record"
    /\ LET r == current_performance(current_model, test_loader,
                                    Some(observations_for_labelling))
       IN /\ performances' = Put(performances, IterKey(iteration), r.result)
          /\ current_model' = r.current_model
    /\ pc' = "update"
    /\ UNCHANGED <<strategy, dm_vars, iteration, labelled_by, result, run_args, run_locals>>

\* update_tag=str(self.iteration), evaluated before the call is made.
\* (Variant: the tag read after the increment.)
update_tag_after_increment(it) == ToString(it + 1)
update_tag_of_pass(it) == ToString(it)

\* self.active_learning_update(observations_for_labelling, oracle_interface, ...)
RunUpdate ==
    /\ pc = "update"
    /\ LET r == active_learning_update(observations_for_labelling,
                                       oracle_interface, update_tag_of_pass(iteration))
       IN /\ l_indices' = r.l
          /\ u_indices' = r.u
          /\ oracle_seen' = r.oracle_seen
          /\ iteration' = r.iteration
          /\ labelled_by' = r.labelled_by
    /\ pc' = "cap"
    /\ UNCHANGED <<strategy, top_unlabelled, current_model, performances, result,
                   run_args, run_locals>>

\* Variant: the cap compared with >=.
cap_reached_at_least(ni, count) == (ni # None) /\ count >= ni[1]
cap_reached(ni, count) == (ni # None) /\ count = ni[1]

\* if (num_iterations is not None) and iter_count == num_iterations: break
RunCap ==
    /\ pc = "cap"
    /\ pc' = IF cap_reached(num_iterations, iter_count)
             THEN "final_train" ELSE "while"
    /\ UNCHANGED <<strategy, dm_vars, current_model, engine_vars, result, run_args, run_locals>>

\* self.model.train(self.l_loader, self.valid_loader)
RunFinalTrain ==
    /\ pc = "final_train"
    /\ current_model' = train(l_loader)
    /\ pc' = "final_record"
    /\ UNCHANGED <<strategy, dm_vars, engine_vars, result, run_args, run_locals>>

\* self.performances[self.iteration] = self.current_performance(test_loader)
\* and the return.
RunFinalRecord ==
    /\ pc = "final_record"
    /\ LET r == current_performance(current_model, test_loader, None)
       IN /\ performances' = Put(performances, IterKey(iteration), r.result)
          /\ current_model' = r.current_model
    /\ result' = Returned("full_active_learning_run",
                           IF return_query_history THEN Some(query_history) ELSE None)
    /\ pc' = "returned"
    /\ UNCHANGED <<strategy, dm_vars, iteration, labelled_by, run_args, run_locals>>

Next ==
    \/ \E tl \in TestLoaderArgs : TheoreticalPerformance(tl)
    \/ \E tl \in TestLoaderArgs, q \in QueryArgs : CurrentPerformance(tl, q)
    \/ \E n \in 1 .. MaxAnnotate : ActiveLearningStep(n)
    \/ \E ix \in IndexLists, o \in OracleArgs, t \in UpdateTags :
           ActiveLearningUpdate(ix, o, t)
    \/ \E ix \in IndexLists : UpdateAnnotations(ix)
    \/ PerformanceHistory
    \/ \E loader \in {l_loader, u_loader} : GetGradients(loader)
    \/ \E n \in 1 .. MaxAnnotate, ni \in NumIterationsArgs, o \in OracleArgs,
          tl \in RunTestLoaderArgs, rqh \in BOOLEAN : RunCall(n, ni, o, tl, rqh)
    \/ RunWhile
    \/ RunStep
    \/ RunRecord
    \/ RunUpdate
    \/ RunCap
    \/ RunFinalTrain
    \/ RunFinalRecord

Spec == Init /\ [][Next]_vars
\* The same engine under either strategy.
SpecAnyStrategy == InitAnyStrategy /\ [][Next]_vars

\* A freshly constructed engine on which full_active_learning_run is called
\* once, and performance_history once it has returned.
FreshRunCall(n, ni, oracle, tl, rqh) ==
    /\ result.op = "__init__"
    /\ RunCall(n, ni, oracle, tl, rqh)
HistoryAfterRun ==
    /\ pc = "returned"
    /\ PerformanceHistory
NextFreshRun ==
    \/ \E n \in 1 .. MaxAnnotate, ni \in NumIterationsArgs, o \in OracleArgs,
          tl \in RunTestLoaderArgs, rqh \in BOOLEAN : FreshRunCall(n, ni, o, tl, rqh)
    \/ RunWhile
    \/ RunStep
    \/ RunRecord
    \/ RunUpdate
    \/ RunCap
    \/ RunFinalTrain
    \/ RunFinalRecord
    \/ HistoryAfterRun
SpecFreshRun == Init /\ [][NextFreshRun]_vars

\* ------------------------------------------------------------- properties
\* The moment active_learning_update has just returned inside the loop.
AfterRunUpdate == pc = "cap"

\* C1: at every observation point the labelled and unlabelled sets are
\* disjoint and together make up the whole index universe.
C1_Partition ==
    /\ l_indices \cap u_indices = {}
    /\ l_indices \cup u_indices = Universe

\* C1 witness: an update inside full_active_learning_run has just moved two
\* indices out of a two-element U.
C1_Witness ==
    /\ AfterRunUpdate
    /\ Len(observations_for_labelling) = 2
    /\ Range(observations_for_labelling) \subseteq l_indices
    /\ u_indices = {}

\* A step in which a direct active_learning_update call is made, and one in
\* which the loop of full_active_learning_run makes its update.
DirectUpdateStep == Callable /\ result'.op = "active_learning_update"
RunUpdateStep == pc = "update" /\ pc' = "cap"

\* The effect C2 states for an update handed the list ix.
MovesExactly(ix) ==
    /\ l_indices' = l_indices \cup Range(ix)
    /\ u_indices' = u_indices \ Range(ix)
    /\ Cardinality(l_indices') = Cardinality(l_indices) + Len(ix)
    /\ Cardinality(u_indices') = Cardinality(u_indices) - Len(ix)
    /\ iteration' = iteration + 1

DistinctFromU(ix) ==
    /\ Cardinality(Range(ix)) = Len(ix)
    /\ Range(ix) \subseteq u_indices

\* C2: active_learning_update on a list of distinct indices of the current U,
\* with or without an oracle interface, moves exactly those indices from U
\* to L and raises the iteration counter by exactly one; the same holds for
\* the update made inside each pass of full_active_learning_run.
C2_UpdateMovesExactly ==
    [][ /\ DirectUpdateStep =>
              \A ix \in IndexLists, o \in OracleArgs, t \in UpdateTags :
                  (ActiveLearningUpdate(ix, o, t) /\ DistinctFromU(ix))
                      => MovesExactly(ix)
        /\ (RunUpdateStep /\ DistinctFromU(observations_for_labelling))
              => MovesExactly(observations_for_labelling)
      ]_vars

\* C2 witness: from L = {0}, U = {1, 2}, iteration 0, a direct update of two
\* indices with an oracle interface has given L = {0, 1, 2}, U = {},
\* iteration 1.
C2_Witness ==
    /\ result.op = "active_learning_update"
    /\ iteration = 1
    /\ l_indices = {0, 1, 2}
    /\ u_indices = {}
    /\ oracle_seen = {1, 2}
    /\ labelled_by[0] = "Initialisation"
    /\ labelled_by[1] = "Manual Update"
    /\ labelled_by[2] = "Manual Update"

InRun == pc \notin {"idle", "returned"}

\* C3 (as claimed): the loop body of full_active_learning_run runs at most
\* ceil(|U0| / num_annotate) times, and at most num_iterations times when
\* num_iterations is a non-negative integer smaller than that.
C3_LoopBound ==
    (InRun \/ pc = "returned") =>
        LET most == CeilDiv(Cardinality(u_at_call), num_annotate)
        IN /\ iter_count <= most
           /\ (num_iterations # None /\ num_iterations[1] < most)
                  => iter_count <= num_iterations[1]

\* C4: the loop is left only from its test (U empty) or from the cap test
\* that follows the update (num_iterations given and equal to the loop
\* counter); within a pass, step, performance recording and update follow
\* each other and the cap is tested once, after the update.
C4_LoopExit ==
    [][ /\ (pc' = "final_train" /\ pc # "final_train") =>
              /\ pc \in {"while", "cap"}
              /\ \/ Cardinality(u_indices') = 0
                 \/ /\ num_iterations' # None
                    /\ iter_count' = num_iterations'[1]
                    /\ pc = "cap"
        /\ (pc = "step") => pc' = "record"
        /\ (pc = "record") => pc' = "update"
        /\ (pc = "update") => pc' = "cap"
        /\ (pc' = "cap") => pc = "update"
      ]_vars

\* C4 witness: the loop has just been left by the cap with U still non-empty.
C4_Witness ==
    /\ pc = "final_train"
    /\ u_indices # {}
    /\ num_iterations = Some(1)
    /\ iter_count = 1

RunReturned == pc = "returned"
FinalRecord == performances[IterKey(iteration)]

\* C5 (as claimed): after full_active_learning_run returns, the model holds a
\* fitted instance trained on the final labelled set.
C5_EndsFitted ==
    RunReturned =>
        /\ current_model # None
        /\ current_model[1].fit = l_indices

\* C5 (amended): after full_active_learning_run returns, the record stored
\* under the final iteration key was measured on a model trained on the
\* final labelled set, with no query, and the model state is null again.
C5_EndsMeasuredAndReset ==
    RunReturned =>
        /\ current_model = None
        /\ IterKey(iteration) \in DOMAIN performances
        /\ FinalRecord.model = l_indices
        /\ (top_unlabelled # None) => FinalRecord.hit_ratio = NaN

\* C5 witness: a run stopped by the cap after one pass has returned with U
\* still non-empty and its final record measured on the final L.
C5_Witness ==
    /\ RunReturned
    /\ u_indices # {}
    /\ iter_count = 1
    /\ FinalRecord.model = l_indices

\* What current_performance must leave, entered with model state cm and
\* returning the record rec.
MeasuredAndReset(cm, rec) ==
    /\ current_model' = None
    /\ rec.model = IF cm = None THEN l_indices ELSE cm[1].fit

\* C6: current_performance leaves the model state null whatever the model
\* state on entry, the test loader, the query and the oracle top-set; the
\* model it tests is a fresh fit on the current labelled set exactly when
\* the model state was null on entry, and the model found on entry otherwise.
C6_CurrentPerformanceResets ==
    [][ /\ (Callable /\ result'.op = "current_performance")
              => MeasuredAndReset(current_model, result'.value[1])
        /\ (pc \in {"record", "final_record"} /\ pc' # pc)
              => MeasuredAndReset(current_model,
                                  performances'[IterKey(iteration)])
      ]_vars

\* C6 witness: current_performance was called with the new test loader on a
\* model fitted before the labelled set grew; it tested that model and left
\* the model state null.
C6_Witness ==
    /\ result.op = "current_performance"
    /\ result.value[1].model # l_indices
    /\ result.value[1].loader = "new_test"
    /\ current_model = None
    /\ top_unlabelled # None

\* C7: theoretical_performance trains on the full train set, stores the
\* record under "full", leaves the model state null, and changes neither
\* the iteration counter, the partition, the provenance log nor any record
\* stored under an iteration key.
C7_TheoreticalPerformanceFrame ==
    [][ (Callable /\ result'.op = "theoretical_performance") =>
            /\ FullKey \in DOMAIN performances'
            /\ performances'[FullKey].model = Universe
            /\ result'.value = Some(performances'[FullKey])
            /\ current_model' = None
            /\ iteration' = iteration
            /\ l_indices' = l_indices
            /\ u_indices' = u_indices
            /\ labelled_by' = labelled_by
            /\ DOMAIN performances' = DOMAIN performances \cup {FullKey}
            /\ \A k \in DOMAIN performances :
                   IsIterKey(k) => performances'[k] = performances[k]
      ]_vars

\* C7 witness: theoretical_performance has returned on an engine that already
\* holds iteration-keyed records and a partly unlabelled train set.
C7_Witness ==
    /\ result.op = "theoretical_performance"
    /\ current_model = None
    /\ iteration >= 1
    /\ IterKey(0) \in DOMAIN performances
    /\ u_indices # {}
    /\ performances[FullKey].model # l_indices

\* C8 (as claimed): the indices with a provenance entry are exactly L,
\* whichever public operation moved them.
C8_ProvenanceIsL == DOMAIN labelled_by = l_indices

\* C8 (amended): every index that active_learning_update moves from U to L,
\* called directly or by full_active_learning_run, gets its provenance entry
\* in that call, and only labelled indices have an entry; the set of indices
\* with an entry equals L as long as update_annotations is not called
\* directly, which moves indices without logging them.
C8_ProvenanceOfUpdates ==
    [][ /\ DOMAIN labelled_by' \subseteq l_indices'
        /\ (result'.op # "update_annotations") =>
              /\ (l_indices' \ l_indices) \subseteq DOMAIN labelled_by'
              /\ (DOMAIN labelled_by = l_indices)
                     => (DOMAIN labelled_by' = l_indices')
        /\ (Callable /\ result'.op = "update_annotations") =>
              labelled_by' = labelled_by
      ]_vars

\* C8 witness: indices were moved by the loop's updates and by a direct
\* update, each logged, and every labelled index has an entry.
C8_Witness ==
    /\ AfterRunUpdate
    /\ iteration = 2
    /\ l_indices = Universe
    /\ DOMAIN labelled_by = l_indices
    /\ \E i \in l_indices : labelled_by[i] = "Manual Update"

\* C9: provenance tags match the call site: "Initialisation" for the initial
\* L; for the indices selected in a pass of full_active_learning_run, the
\* string of the iteration number the pass started with, which is the key its
\* performance record was stored under; and the given tag, on exactly the
\* given indices, for a direct active_learning_update.
C9_TagsMatchCallSite ==
    /\ [] ((result.op = "__init__") =>
              /\ DOMAIN labelled_by = l_indices
              /\ \A i \in l_indices : labelled_by[i] = "Initialisation")
    /\ [][ /\ (pc \in {"step", "record"}) => iteration' = iteration
           /\ (pc = "record" /\ pc' = "update") =>
                  IterKey(iteration) \in DOMAIN performances'
           /\ RunUpdateStep =>
                  /\ iteration' = iteration + 1
                  /\ \A i \in Range(observations_for_labelling) :
                         /\ labelled_by'[i] = ToString(iteration)
                         /\ IterKey(iteration) \in DOMAIN performances
                  /\ \A i \in DOMAIN labelled_by \ Range(observations_for_labelling) :
                         labelled_by'[i] = labelled_by[i]
           /\ DirectUpdateStep =>
                  \A ix \in IndexLists, o \in OracleArgs, t \in UpdateTags :
                      ActiveLearningUpdate(ix, o, t) =>
                          /\ DOMAIN labelled_by' = DOMAIN labelled_by \cup Range(ix)
                          /\ \A i \in Range(ix) : labelled_by'[i] = t
                          /\ \A i \in DOMAIN labelled_by \ Range(ix) :
                                 labelled_by'[i] = labelled_by[i]
         ]_vars

\* C9 witness: index 0 was labelled at construction, one index by a direct
\* update at iteration 0 and one by the loop's pass that started at
\* iteration 1.
C9_Witness ==
    /\ labelled_by[0] = "Initialisation"
    /\ \E i, j \in Universe :
           /\ i \in DOMAIN labelled_by /\ labelled_by[i] = "Manual Update"
           /\ j \in DOMAIN labelled_by /\ labelled_by[j] = "1"
    /\ IterKey(1) \in DOMAIN performances
    /\ iteration = 2

\* C10 (as claimed): the iteration counter never decreases and no
\* iteration-keyed performance record or provenance entry is ever removed
\* or replaced by a different value.
C10_AppendOnly ==
    [][ /\ iteration' >= iteration
        /\ \A k \in DOMAIN performances :
               IsIterKey(k) =>
                   /\ k \in DOMAIN performances'
                   /\ performances'[k] = performances[k]
        /\ \A i \in DOMAIN labelled_by :
               /\ i \in DOMAIN labelled_by'
               /\ labelled_by'[i] = labelled_by[i]
      ]_vars

\* C10 (amended): the iteration counter never decreases and no performance
\* key or provenance index is ever removed; a record under a key below the
\* current iteration is never changed, and a provenance tag changes only in
\* an active_learning_update.  The record under the current iteration key
\* can be replaced (by a later full_active_learning_run) and the tag of an
\* index by a later update that names it.
C10_NeverRemoved ==
    [][ /\ iteration' >= iteration
        /\ DOMAIN performances \subseteq DOMAIN performances'
        /\ DOMAIN labelled_by \subseteq DOMAIN labelled_by'
        /\ \A k \in DOMAIN performances :
               (IsIterKey(k) /\ k[2] < iteration)
                   => performances'[k] = performances[k]
        /\ \A i \in DOMAIN labelled_by :
               (labelled_by'[i] # labelled_by[i]) => iteration' = iteration + 1
      ]_vars

\* C10 witness: the first pass of a second full_active_learning_run has
\* replaced the final record (no query) the first run stored under key 1 by
\* its own (with a query), while the first run's record under key 0 is in
\* place.
C10_Witness ==
    /\ pc = "update"
    /\ iter_count = 1
    /\ iteration = 1
    /\ top_unlabelled # None
    /\ IterKey(0) \in DOMAIN performances
    /\ IterKey(1) \in DOMAIN performances
    /\ performances[IterKey(0)].hit_ratio # NaN
    /\ performances[IterKey(1)].hit_ratio # NaN

\* C11: within each pass of the loop of full_active_learning_run the order is
\* active_learning_step, then the current_performance record, then
\* active_learning_update. The step leaves a fitted model and touches neither
\* the partition nor the logs; the record stored under the current iteration
\* key is measured on that fit while the selection is still unlabelled, and
\* only this measurement resets the model; the update that follows raises the
\* counter by one and finds the record of the pass already stored.
C11_PassOrder ==
    [][ /\ (pc = "step" =>
              /\ pc' = "record"
              /\ current_model' # None
              /\ performances' = performances
              /\ <<l_indices, u_indices, iteration>>' = <<l_indices, u_indices, iteration>>)
        /\ (pc = "record" =>
              /\ pc' = "update"
              /\ current_model # None
              /\ current_model' = None
              /\ Range(observations_for_labelling) \subseteq u_indices
              /\ IterKey(iteration) \in DOMAIN performances'
              /\ performances'[IterKey(iteration)].model = l_indices
              /\ <<l_indices, u_indices, iteration>>' = <<l_indices, u_indices, iteration>>)
        /\ (pc = "update" =>
              /\ pc' = "cap"
              /\ IterKey(iteration) \in DOMAIN performances
              /\ performances' = performances
              /\ iteration' = iteration + 1
              /\ l_indices' = l_indices \cup Range(observations_for_labelling)) ]_vars

\* C11 witness: in the second pass of a run the record has been stored and the
\* model reset, and the update of the pass has not moved the selection yet.
C11_Witness ==
    /\ pc = "update"
    /\ iter_count = 2
    /\ current_model = None
    /\ observations_for_labelling # <<>>
    /\ Range(observations_for_labelling) \subseteq u_indices
    /\ performances[IterKey(iteration)].model = l_indices

\* A step of full_active_learning_run: its entry or a step inside it (a direct
\* public call leaves pc at "idle").
RunProgress == pc' # "idle"

\* C12: full_active_learning_run never writes under the key "full": across
\* each of its steps the "full" record is neither created, changed nor
\* removed, and every key it creates or rewrites is an integer iteration key.
C12_FullUntouchedByRun ==
    [][ RunProgress =>
          /\ (FullKey \in DOMAIN performances') = (FullKey \in DOMAIN performances)
          /\ (FullKey \in DOMAIN performances =>
                 performances'[FullKey] = performances[FullKey])
          /\ \A k \in DOMAIN performances' :
                 (k \notin DOMAIN performances \/ performances'[k] # performances[k])
                     => IsIterKey(k) ]_vars

\* C12 witness: a run that followed theoretical_performance has returned after
\* two passes, its records under integer keys standing next to "full".
C12_Witness ==
    /\ pc = "returned"
    /\ iter_count = 2
    /\ FullKey \in DOMAIN performances
    /\ {IterKey(0), IterKey(1), IterKey(2)} \subseteq DOMAIN performances
    /\ performances[FullKey].model = Universe

\* Steps in which a direct current_performance or theoretical_performance
\* call is made.
DirectCurrentPerformanceStep == Callable /\ result'.op = "current_performance"
DirectTheoreticalPerformanceStep == Callable /\ result'.op = "theoretical_performance"

\* |set(Q) & T| over |T|.
DistinctHitsOverT(Q, T) == <<Cardinality(Range(Q) \cap T), Cardinality(T)>>

\* C13: with an oracle top-informative set T configured, current_performance
\* given a query Q reports |set(Q) & T| / |T|: for T = {3,7,9} and
\* Q = 7,9,12,5 that is 2/3, a repeated query member counts once, and the
\* denominator is |T| whatever the length of Q. Without a query it reports
\* not-a-number, and theoretical_performance reports not-a-number. This holds
\* for direct calls and for the records full_active_learning_run stores.
C13_HitRatio ==
    /\ [](/\ hit_ratio(Some(<<7, 9, 12, 5>>), {3, 7, 9}) = <<2, 3>>
          /\ hit_ratio(Some(<<7, 7, 9>>), {3, 7, 9}) = <<2, 3>>
          /\ hit_ratio(Some(<<7>>), {3, 7, 9}) = <<1, 3>>
          /\ hit_ratio(None, {3, 7, 9}) = NaN)
    /\ [][ top_unlabelled # None =>
             /\ (DirectCurrentPerformanceStep =>
                   \A tl \in TestLoaderArgs, q \in QueryArgs :
                       CurrentPerformance(tl, q) =>
                           result'.value[1].hit_ratio =
                               IF q = None THEN NaN
                               ELSE DistinctHitsOverT(q[1], top_unlabelled[1]))
             /\ (pc = "record" =>
                   performances'[IterKey(iteration)].hit_ratio =
                       DistinctHitsOverT(observations_for_labelling, top_unlabelled[1]))
             /\ (pc = "final_record" =>
                   performances'[IterKey(iteration)].hit_ratio = NaN)
             /\ (DirectTheoreticalPerformanceStep =>
                   /\ result'.value[1].hit_ratio = NaN
                   /\ performances'[FullKey].hit_ratio = NaN) ]_vars

\* C13 witness: a pass of a run has recorded the hit ratio of the one-index
\* query 1 against T = {0, 1}: one hit over |T| = 2.
C13_Witness ==
    /\ pc = "update"
    /\ top_unlabelled = Some({0, 1})
    /\ observations_for_labelling = <<1>>
    /\ performances[IterKey(iteration)].hit_ratio = <<1, 2>>

\* The degenerate cases of the hit ratio: no oracle top-informative set, or no
\* query.
Degenerate(query) == top_unlabelled = None \/ query = None

\* C14 as stated: in every degenerate case current_performance returns a
\* record whose hit ratio is not-a-number.
C14_DegenerateIsNaN ==
    [][ /\ (DirectCurrentPerformanceStep =>
              \A tl \in TestLoaderArgs, q \in QueryArgs :
                  (CurrentPerformance(tl, q) /\ Degenerate(q)) =>
                      /\ ~IsRaised(result'.value)
                      /\ "hit_ratio" \in DOMAIN result'.value[1]
                      /\ result'.value[1].hit_ratio = NaN)
        /\ (pc = "final_record" =>
              /\ "hit_ratio" \in DOMAIN performances'[IterKey(iteration)]
              /\ performances'[IterKey(iteration)].hit_ratio = NaN) ]_vars

\* C14: in the degenerate cases current_performance returns normally; with an
\* oracle top-informative set and no query the returned record carries the
\* hit ratio not-a-number, and without an oracle top-informative set the
\* returned record carries no hit ratio at all, query or not.
C14_DegenerateOutcome ==
    [][ /\ (DirectCurrentPerformanceStep =>
              \A tl \in TestLoaderArgs, q \in QueryArgs :
                  (CurrentPerformance(tl, q) /\ Degenerate(q)) =>
                      /\ ~IsRaised(result'.value)
                      /\ IF top_unlabelled = None
                         THEN "hit_ratio" \notin DOMAIN result'.value[1]
                         ELSE result'.value[1].hit_ratio = NaN)
        /\ (pc = "final_record" =>
              /\ pc' = "returned"
              /\ IF top_unlabelled = None
                 THEN "hit_ratio" \notin DOMAIN performances'[IterKey(iteration)]
                 ELSE performances'[IterKey(iteration)].hit_ratio = NaN)
        /\ ((pc = "record" /\ top_unlabelled = None) =>
              /\ pc' = "update"
              /\ "hit_ratio" \notin DOMAIN performances'[IterKey(iteration)]) ]_vars

\* C14 witness: a direct current_performance call on an engine without an
\* oracle top-informative set has returned a record, and it has no hit ratio.
C14_Witness ==
    /\ result.op = "current_performance"
    /\ top_unlabelled = None
    /\ ~IsRaised(result.value)
    /\ DOMAIN result.value[1] = {"model", "loader"}

\* performance_history has just returned the table History (it changes neither
\* the performances dict nor the counter, so both are as they were at the
\* call).
HistoryReturned == result.op = "performance_history"
History == result.value[1]
MetricColumns == Tail(History.columns)
\* String order of the metric names.
NameBefore(a, b) ==
    <<a, b>> \in {<<"hit_ratio", "loader">>, <<"hit_ratio", "model">>,
                  <<"loader", "model">>}
\* One row per recorded integer key, in ascending order, none for "full", each
\* holding the values of its record under the columns; the first column is
\* "Iteration" and the others are in sorted order.
HistoryRowsAscending ==
    /\ Len(History.rows) = Cardinality(int_keys(performances))
    /\ {History.rows[i][1] : i \in DOMAIN History.rows} = int_keys(performances)
    /\ \A i, j \in DOMAIN History.rows :
           i < j => History.rows[i][1] < History.rows[j][1]
    /\ History.columns[1] = "Iteration"
    /\ \A i, j \in DOMAIN MetricColumns :
           i < j => NameBefore(MetricColumns[i], MetricColumns[j])
    /\ \A i \in DOMAIN History.rows :
           /\ Len(History.rows[i]) = Len(History.columns)
           /\ \A c \in DOMAIN MetricColumns :
                  History.rows[i][c + 1] =
                      performances[IterKey(History.rows[i][1])][MetricColumns[c]]

\* C15 as stated: without a "full" record the metric columns are those of the
\* latest recorded iteration's record.
C15_ColumnsOfLatestRecorded ==
    HistoryReturned =>
        /\ HistoryRowsAscending
        /\ Range(MetricColumns) =
               IF FullKey \in DOMAIN performances
               THEN DOMAIN performances[FullKey]
               ELSE IF int_keys(performances) # {}
                    THEN DOMAIN performances[IterKey(Max(int_keys(performances)))]
                    ELSE {}

\* C15: performance_history returns one row per recorded integer iteration
\* key, in ascending order and never one for "full"; its columns are
\* "Iteration" followed by the sorted metric names of the "full" record if
\* there is one, else of the record stored under the current value of the
\* iteration counter if there is one, else "Iteration" alone (also when
\* records exist under other keys).
C15_ColumnsOfCurrentIteration ==
    HistoryReturned =>
        /\ HistoryRowsAscending
        /\ Range(MetricColumns) =
               IF FullKey \in DOMAIN performances
               THEN DOMAIN performances[FullKey]
               ELSE IF IterKey(iteration) \in DOMAIN performances
                    THEN DOMAIN performances[IterKey(iteration)]
                    ELSE {}

\* C15 witness: with records under 0, 1 and "full", performance_history has
\* returned exactly two rows, 0 before 1, under the columns of "full".
C15_Witness ==
    /\ HistoryReturned
    /\ int_keys(performances) = {0, 1}
    /\ FullKey \in DOMAIN performances
    /\ Len(History.rows) = 2
    /\ History.rows[1][1] = 0
    /\ History.rows[2][1] = 1
    /\ Range(MetricColumns) = DOMAIN performances[FullKey]

\* A step in which a direct active_learning_step call is made.
DirectStepStep == Callable /\ result'.op = "active_learning_step"
\* s holds exactly n pairwise distinct members of U.
DistinctFromUOfLength(s, n) ==
    /\ Len(s) = n
    /\ Cardinality(Range(s)) = n
    /\ Range(s) \subseteq u_indices
\* The list s is in descending order of the scores (given per position of the
\* list ul of unlabelled indices) and no index left out scores higher than
\* one that is in it.
DescendingByScore(s, ul, scores) ==
    LET score(x) == scores[CHOOSE p \in DOMAIN ul : ul[p] = x]
    IN /\ \A i, j \in DOMAIN s : i < j => score(s[i]) >= score(s[j])
       /\ \A x \in Range(ul) \ Range(s), i \in DOMAIN s : score(x) <= score(s[i])
\* The step changed nothing but the model, which it trained on L.
StepFrame ==
    /\ current_model' = train(l_loader)
    /\ <<l_indices, u_indices, iteration, labelled_by, performances>>'
           = <<l_indices, u_indices, iteration, labelled_by, performances>>

\* C16: BadgeStrategy.active_learning_step(n) with 0 < n <= |U| returns
\* exactly n pairwise distinct members of U as it is at the call, in
\* descending order of score for whatever scores the gradients give, and
\* changes only the model (by training on L): L, U, the iteration counter, the
\* provenance log and the performance log are left as they were. This holds
\* for a direct call and for the call inside full_active_learning_run.
C16_BadgeStep ==
    /\ [](\A n \in 1 .. MaxAnnotate : n <= Cardinality(u_indices) =>
             \A scores \in Scores(Cardinality(u_indices)) :
                 \A ixs \in argsort_descending(scores) :
                     LET s == selection(ListOf(u_indices), ixs, n)
                     IN /\ s \in active_learning_step(n)
                        /\ DistinctFromUOfLength(s, n)
                        /\ DescendingByScore(s, ListOf(u_indices), scores))
    /\ [][ /\ (DirectStepStep =>
                 \A n \in 1 .. MaxAnnotate :
                     (ActiveLearningStep(n) /\ n <= Cardinality(u_indices)) =>
                         /\ ~IsRaised(result'.value)
                         /\ DistinctFromUOfLength(result'.value[1], n)
                         /\ StepFrame)
           /\ ((pc = "step" /\ num_annotate <= Cardinality(u_indices)) =>
                 /\ pc' = "record"
                 /\ DistinctFromUOfLength(observations_for_labelling', num_annotate)
                 /\ StepFrame) ]_vars

\* C16 witness: a direct active_learning_step(2) has returned two distinct
\* members of a two-element U and left the model fitted on L.
C16_Witness ==
    /\ result.op = "active_learning_step"
    /\ ~IsRaised(result.value)
    /\ Len(result.value[1]) = 2
    /\ Range(result.value[1]) = u_indices
    /\ Cardinality(u_indices) = 2
    /\ current_model = train(l_loader)

\* A step in which a direct update_annotations call is made.
DirectUpdateAnnotationsStep == Callable /\ result'.op = "update_annotations"

\* C17: update_annotations(indices) does what the data manager's
\* update_train_labels does with the same indices and nothing else: L and U
\* become what that operation makes them, and the iteration counter, the
\* provenance log, the performance log and the model state are left as they
\* were.
C17_UpdateAnnotationsPassthrough ==
    [][ DirectUpdateAnnotationsStep =>
          \A ix \in IndexLists :
              UpdateAnnotations(ix) =>
                  /\ l_indices' = update_train_labels(l_indices, u_indices, ix).l
                  /\ u_indices' = update_train_labels(l_indices, u_indices, ix).u
                  /\ <<iteration, labelled_by, performances, current_model>>'
                         = <<iteration, labelled_by, performances, current_model>> ]_vars

\* C17 witness: after an active_learning_step left a fitted model, a direct
\* update_annotations has emptied U; the model is still fitted, the counter
\* is 0 and the provenance log still knows only the indices it knew before.
C17_Witness ==
    /\ result.op = "update_annotations"
    /\ u_indices = {}
    /\ current_model # None
    /\ current_model[1].fit # l_indices
    /\ iteration = 0
    /\ performances = EmptyDict
    /\ DOMAIN labelled_by # l_indices

\* A step in which get_gradients is called on the model from outside a step.
GetGradientsStep == Callable /\ result'.op = "get_gradients"

\* C18: get_gradients on a null model raises at once a ValueError that says
\* what is wrong, and changes nothing: partition, oracle, model state,
\* counter and both logs are as before, and the caller is left with the
\* exception (no retry, no training on its behalf). On a fitted model it does
\* not raise. Inside BadgeStrategy.active_learning_step the exception never
\* occurs, called directly or from full_active_learning_run, since the step
\* trains before it queries the gradients.
C18_GetGradientsOnNullModel ==
    /\ [](pc # "raised")
    /\ [][ /\ (GetGradientsStep =>
                 /\ (current_model = None =>
                        /\ result'.value = Raised(UntrainedModelError)
                        /\ result'.value[2].type = "ValueError"
                        /\ result'.value[2].message # ""
                        /\ current_model' = None)
                 /\ (current_model # None => ~IsRaised(result'.value))
                 /\ <<dm_vars, current_model, engine_vars>>'
                        = <<dm_vars, current_model, engine_vars>>)
           /\ (DirectStepStep => ~IsRaised(result'.value))
           /\ (pc = "step" => pc' = "record") ]_vars

\* C18 witness: theoretical_performance stored its record and reset the
\* model, and a get_gradients call after it has raised.
C18_Witness ==
    /\ result.op = "get_gradients"
    /\ IsRaised(result.value)
    /\ current_model = None
    /\ FullKey \in DOMAIN performances

\* C19: every record full_active_learning_run stores under an integer
\* iteration key, in a pass or at the end, is the test of a model fitted on
\* the labelled set as it is when the record is taken: the model the
\* measurement finds is either null (and is then fitted on L) or already a
\* fit on this L, never the full-data fit of theoretical_performance and never
\* a fit on an earlier L. This holds for BadgeStrategy, whose step trains on
\* L, and for a strategy whose step does not train, after any earlier calls.
C19_RecordsMeasureCurrentL ==
    [][ (pc \in {"record", "final_record"}) =>
          /\ (current_model = None \/ current_model = train(l_loader))
          /\ IterKey(iteration) \in DOMAIN performances'
          /\ performances'[IterKey(iteration)].model = l_indices
          /\ l_indices' = l_indices ]_vars

\* C19 witness: an engine whose step does not train ran
\* theoretical_performance and then a run; in the second pass the record just
\* stored is a fit on the L of that pass, which is larger than it was in the
\* first pass and is not the full data.
C19_Witness ==
    /\ strategy = "no_train"
    /\ pc = "update"
    /\ iter_count = 2
    /\ FullKey \in DOMAIN performances
    /\ performances[FullKey].model = Universe
    /\ l_indices # Universe
    /\ performances[IterKey(iteration)].model = l_indices
    /\ performances[IterKey(iteration - 1)].model # l_indices

\* The indices the provenance log holds under the tag of iteration key i.
TaggedWithKey(i) == {x \in DOMAIN labelled_by : labelled_by[x] = ToString(i)}

\* C20: when the single full_active_learning_run of a freshly constructed
\* engine has returned after k passes of its loop, the iteration counter is k,
\* the performance log has exactly the integer keys 0 .. k and nothing else,
\* and performance_history has k + 1 rows. If the query history was asked for,
\* it is what the run returned, its keys are exactly 1 .. k, and its entry j
\* holds the indices selected in the pass whose record is under key j - 1:
\* they carry the provenance tag j - 1, that record has their hit ratio and
\* was measured before they were labelled, and record j after.
C20_FreshRunBookkeeping ==
    /\ (pc = "returned" =>
          /\ iteration = iter_count
          /\ DOMAIN performances = {IterKey(i) : i \in 0 .. iter_count}
          /\ int_keys(performances) = 0 .. iter_count
          /\ Len(performance_history(performances, iteration).rows) = iter_count + 1
          /\ (~return_query_history => result.value = None)
          /\ (return_query_history =>
                /\ result.value = Some(query_history)
                /\ DOMAIN query_history = 1 .. iter_count
                /\ \A j \in 1 .. iter_count :
                       /\ Range(query_history[j]) = TaggedWithKey(j - 1)
                       /\ Range(query_history[j]) \cap
                              performances[IterKey(j - 1)].model = {}
                       /\ Range(query_history[j]) \subseteq
                              performances[IterKey(j)].model
                       /\ (top_unlabelled # None =>
                              performances[IterKey(j - 1)].hit_ratio =
                                  hit_ratio(Some(query_history[j]), top_unlabelled[1]))))
    /\ (HistoryReturned =>
          /\ Len(History.rows) = iteration + 1
          /\ \A i \in DOMAIN History.rows : History.rows[i][1] = i - 1)

\* C20 witness: the run of a fresh engine has returned its query history
\* after two passes: counter 2, records under 0, 1 and 2, entries 1 and 2.
C20_Witness ==
    /\ pc = "returned"
    /\ return_query_history
    /\ iter_count = 2
    /\ iteration = 2
    /\ int_keys(performances) = {0, 1, 2}
    /\ DOMAIN query_history = {1, 2}
    /\ Range(query_history[2]) = TaggedWithKey(1)

====
